---- MODULE Spec2Model ----
(***************************************************************************)
(* A model of src/app.py, the landing-page generator: the formatting       *)
(* helpers (format_installs), the image cache (download_image), the        *)
(* palette extraction (vary_color, extract_dominant_colors), the similar   *)
(* apps search (get_similar_apps), the metadata pipeline                   *)
(* (process_app_data) and the page rendering (generate_html).              *)
(*                                                                         *)
(* Python strings whose characters matter (numbers, colors) are sequences  *)
(* of one-character strings; file names and paths are TLA+ strings built   *)
(* with \o.  A Python value of unknown type is a record [t, v] with        *)
(* t \in {"int", "none", "str"}.                                           *)
(***************************************************************************)
EXTENDS Integers, Sequences, FiniteSets, TLC

VARIABLES
    installs,      \* format_installs: the argument of the call
    installs_ret,  \* format_installs: [returned, raised, value]
    size,          \* format_size: the argument of the call
    size_ret,      \* format_size: [returned, raised, value]
    similar_args,  \* get_similar_apps: the arguments and the search outcomes
    similar_ret,   \* get_similar_apps: [returned, raised, value]
    image,         \* extract_dominant_colors: what ColorThief finds at image_path
    colors_ret,    \* extract_dominant_colors: [returned, raised, value]
    files,         \* the image directory of the package: file name -> content
    record,        \* the object the last process_app_data call returned
    outcome,       \* how the last process_app_data call ended
    args,          \* the arguments of the last process_app_data call
    log,           \* the calls the last process_app_data made, in order
    html,          \* the image references and colors of the last rendered page
    renders        \* generate_html calls made on the current record

vars == <<installs, installs_ret, size, size_ret, similar_args, similar_ret,
          image, colors_ret, files, record, outcome, args, log, html, renders>>

----------------------------------------------------------------------------
(* Python values and strings                                               *)

PyInt(n) == [t |-> "int", v |-> n]
PyNone == [t |-> "none", v |-> 0]
PyStr == [t |-> "str", v |-> 0]

DigitChars == <<"0", "1", "2", "3", "4", "5", "6", "7", "8", "9">>

RECURSIVE NatChars(_)
\* str(n) of a non-negative int, as a sequence of characters
NatChars(n) ==
    IF n < 10 THEN <<DigitChars[n + 1]>>
    ELSE NatChars(n \div 10) \o <<DigitChars[(n % 10) + 1]>>

\* str(n) of an int
IntChars(n) == IF n < 0 THEN <<"-">> \o NatChars(-n) ELSE NatChars(n)

RECURSIVE NatStr(_)
\* str(n) of a non-negative int, as a string (for file names)
NatStr(n) ==
    IF n < 10 THEN DigitChars[n + 1]
    ELSE NatStr(n \div 10) \o DigitChars[(n % 10) + 1]

\* The value of a decimal digit character, -1 for any other character
DigitValue(c) ==
    IF \E d \in 1..10 : DigitChars[d] = c
    THEN (CHOOSE d \in 1..10 : DigitChars[d] = c) - 1
    ELSE -1

RECURSIVE CharsNat(_)
\* int(s) of a sequence of decimal digits; -1 when s is not one
CharsNat(s) ==
    IF s = <<>> THEN -1
    ELSE IF DigitValue(s[Len(s)]) < 0 THEN -1
    ELSE IF Len(s) = 1 THEN DigitValue(s[1])
    ELSE IF CharsNat(SubSeq(s, 1, Len(s) - 1)) < 0 THEN -1
    ELSE 10 * CharsNat(SubSeq(s, 1, Len(s) - 1)) + DigitValue(s[Len(s)])

\* What a call has produced: nothing yet, a value, or an exception
NotCalled == [returned |-> FALSE, raised |-> FALSE, value |-> <<>>]
Returned(x) == [returned |-> TRUE, raised |-> FALSE, value |-> x]
Raised == [returned |-> FALSE, raised |-> TRUE, value |-> <<>>]

----------------------------------------------------------------------------
(* format_installs                                                         *)

Thousand == 1000
Million == 1000000
Billion == 1000000000

\* f"{n / unit:.0f}" with integer division in place of the rounding
TruncatedQuotient(n, unit) == n \div unit

\* f"{n / unit:.0f}": the quotient rounded to the nearest integer, a tie to
\* the even one (exact for n < 2^53, where n / unit is the nearest double and
\* is a tie only when the remainder is exactly half the unit)
FormatQuotient(n, unit) ==
    LET q == n \div unit
        r == n % unit
    IN  IF r > unit - r THEN q + 1
        ELSE IF r < unit - r THEN q
        ELSE IF q % 2 = 0 THEN q ELSE q + 1

\* The try block of format_installs: comparing a value that is no number
\* with an int raises TypeError
format_installs_try(x) ==
    IF x.t # "int" THEN Raised
    ELSE IF x.v >= Billion
    THEN Returned(NatChars(FormatQuotient(x.v, Billion)) \o <<"B", "+">>)
    ELSE IF x.v >= Million
    THEN Returned(NatChars(FormatQuotient(x.v, Million)) \o <<"M", "+">>)
    ELSE IF x.v >= Thousand
    THEN Returned(NatChars(FormatQuotient(x.v, Thousand)) \o <<"K", "+">>)
    ELSE Returned(IntChars(x.v))

\* format_installs with no except clause
format_installs_uncaught(x) == format_installs_try(x)

format_installs(x) ==
    IF format_installs_try(x).raised
    THEN Returned(<<"0", "+">>)
    ELSE format_installs_try(x)

\* The arguments the model calls format_installs with: the integers within
\* InstallWindow of the unit boundaries and of the rounding ties, None and a
\* string
InstallWindow == 5

InstallCentres ==
    {0, 500, Thousand, 1500, 2500, 999500, Million, 1500000, 2500000,
     999500000, Billion, 1500000000, 2000000000}

InstallInputs ==
    {PyInt(n) : n \in {m \in UNION {(c - InstallWindow)..(c + InstallWindow) :
                                     c \in InstallCentres} : m >= 0}}
    \cup {PyNone, PyStr}

FormatInstalls ==
    /\ ~installs_ret.returned /\ ~installs_ret.raised
    /\ installs_ret' = format_installs(installs)
    /\ UNCHANGED <<installs, size, size_ret, similar_args, similar_ret, image,
                   colors_ret, files, record, outcome, args, log, html,
                   renders>>

----------------------------------------------------------------------------
(* format_size.  Besides an int, None and a string that is no number, the  *)
(* argument can be the empty string, the decimal string of an int, and a   *)
(* float (or its string) that is nan or inf.                               *)

PyEmptyStr == [t |-> "emptystr", v |-> 0]
PyNumStr(n) == [t |-> "numstr", v |-> n]
PyNan == [t |-> "nan", v |-> 0]
PyInf == [t |-> "inf", v |-> 0]

KB == 1024
MB == KB * KB
GB == MB * KB

Varies == <<"V", "a", "r", "i", "e", "s">>

\* not size_bytes
Falsy(x) ==
    \/ x.t = "none"
    \/ x.t = "emptystr"
    \/ x.t = "int" /\ x.v = 0

\* float(size_bytes) raises TypeError for None and ValueError for a string
\* that is no number
FloatRaises(x) == x.t \in {"none", "str", "emptystr"}

\* int(x) of the quotient n / unit: truncated towards zero
IntQuotient(n, unit) ==
    IF n < 0 THEN -((-n) \div unit) ELSE n \div unit

\* The tenths of n / unit, truncated in place of rounded
TruncatedTenths(n, unit) ==
    (10 * (n \div KB) + (10 * (n % KB)) \div KB) \div (unit \div KB)

\* The tenths f"{n / unit:.1f}" prints, for n >= 0 and unit a power of two
\* that KB divides: 10 * n / unit rounded to the nearest integer, a tie to
\* the even one (n / unit is exact in a double for n < 2^53).  10 * n is
\* kept in two parts, whole multiples of KB and the rest, so that no
\* intermediate value leaves 32 bits.
FormatTenths(n, unit) ==
    LET whole == 10 * (n \div KB) + (10 * (n % KB)) \div KB
        rest == (10 * (n % KB)) % KB
        q == whole \div (unit \div KB)
        r == (whole % (unit \div KB)) * KB + rest
    IN  IF r > unit - r THEN q + 1
        ELSE IF r < unit - r THEN q
        ELSE IF q % 2 = 0 THEN q ELSE q + 1

\* The characters of a number of tenths printed with one decimal
OneDecimal(tenths) ==
    NatChars(tenths \div 10) \o <<".">> \o <<DigitChars[(tenths % 10) + 1]>>

\* The try block of format_size
format_size_try(x) ==
    IF Falsy(x) THEN Returned(Varies)
    ELSE IF FloatRaises(x) THEN Raised
    ELSE IF x.t = "nan" THEN Returned(<<"n", "a", "n", " ", "G", "B">>)
    ELSE IF x.t = "inf" THEN Returned(<<"i", "n", "f", " ", "G", "B">>)
    ELSE IF x.v < MB
    THEN Returned(IntChars(IntQuotient(x.v, KB)) \o <<" ", "K", "B">>)
    ELSE IF x.v < GB
    THEN Returned(OneDecimal(FormatTenths(x.v, MB)) \o <<" ", "M", "B">>)
    ELSE Returned(OneDecimal(FormatTenths(x.v, GB)) \o <<" ", "G", "B">>)

format_size(x) ==
    IF format_size_try(x).raised
    THEN Returned(Varies)
    ELSE format_size_try(x)

\* The arguments the model calls format_size with: the integers within
\* SizeWindow of the unit boundaries, of the rounding ties and of some
\* sizes between them, as ints and as their decimal strings, and the values
\* that are no byte count
SizeWindow == 3

SizeCentres ==
    {-2048, 0, KB, 1536, MB - 4, MB + 4, 1101005, 1310720, 1835008,
     524288000, GB - 4, GB + 4, 1342177280, 1879048192, 2147483640}

SizeNumbers ==
    UNION {(c - SizeWindow)..(c + SizeWindow) : c \in SizeCentres}

SizeInputs ==
    {PyInt(n) : n \in SizeNumbers}
    \cup {PyNumStr(n) : n \in SizeNumbers}
    \cup {PyNone, PyStr, PyEmptyStr, PyNan, PyInf}

FormatSize ==
    /\ ~size_ret.returned /\ ~size_ret.raised
    /\ size_ret' = format_size(size)
    /\ UNCHANGED <<installs, installs_ret, size, similar_args, similar_ret,
                   image, colors_ret, files, record, outcome, args, log, html,
                   renders>>

----------------------------------------------------------------------------
(* vary_color and extract_dominant_colors.  Floats in [0, 1] are fixed-point *)
(* integers in units of 1/Unit; a random.uniform(-a, a) draw is a level in   *)
(* Levels times a.                                                           *)

Unit == 1000

Levels == {-1, 1}

\* The three random.uniform draws of one vary_color call
Draws == [h : Levels, s : Levels, v : Levels]

HexChars ==
    <<"0", "1", "2", "3", "4", "5", "6", "7", "8", "9",
      "a", "b", "c", "d", "e", "f">>

RECURSIVE HexDigits(_)
\* '{:x}'.format(n) for n >= 0
HexDigits(n) ==
    IF n < 16 THEN <<HexChars[n + 1]>>
    ELSE HexDigits(n \div 16) \o <<HexChars[(n % 16) + 1]>>

\* '{:02x}'.format(n) for n >= 0
Hex02(n) == IF n < 16 THEN <<"0">> \o HexDigits(n) ELSE HexDigits(n)

\* '#{:02x}{:02x}{:02x}'.format(r, g, b)
HexColor(r, g, b) == <<"#">> \o Hex02(r) \o Hex02(g) \o Hex02(b)

HexValue(c) ==
    IF \E d \in 1..16 : HexChars[d] = c
    THEN (CHOOSE d \in 1..16 : HexChars[d] = c) - 1
    ELSE -1

RECURSIVE LStrip(_, _)
\* s.lstrip(c)
LStrip(s, c) ==
    IF s # <<>> /\ s[1] = c THEN LStrip(Tail(s), c) ELSE s

\* int(s[i:i+2], 16) for i counted from 0; -1 stands for the ValueError of a
\* slice that is empty or holds a character that is no hex digit
ParseHexPair(s, i) ==
    IF Len(s) < i + 1 THEN -1
    ELSE IF HexValue(s[i + 1]) < 0 THEN -1
    ELSE IF Len(s) < i + 2 THEN HexValue(s[i + 1])
    ELSE IF HexValue(s[i + 2]) < 0 THEN -1
    ELSE 16 * HexValue(s[i + 1]) + HexValue(s[i + 2])

Max2(a, b) == IF a >= b THEN a ELSE b
Min2(a, b) == IF a <= b THEN a ELSE b

\* colorsys.rgb_to_hsv(r/255, g/255, b/255) for channels r, g, b in 0..255
rgb_to_hsv(r, g, b) ==
    LET maxc == Max2(r, Max2(g, b))
        minc == Min2(r, Min2(g, b))
        rangec == maxc - minc
        v == (maxc * Unit) \div 255
    IN  IF minc = maxc THEN [h |-> 0, s |-> 0, v |-> v]
        ELSE LET rc == ((maxc - r) * Unit) \div rangec
                 gc == ((maxc - g) * Unit) \div rangec
                 bc == ((maxc - b) * Unit) \div rangec
                 h6 == IF r = maxc THEN bc - gc
                       ELSE IF g = maxc THEN 2 * Unit + rc - bc
                       ELSE 4 * Unit + gc - rc
             IN  [h |-> (h6 \div 6) % Unit,
                  s |-> (rangec * Unit) \div maxc,
                  v |-> v]

\* colorsys.hsv_to_rgb(h, s, v)
hsv_to_rgb(h, s, v) ==
    IF s = 0 THEN [r |-> v, g |-> v, b |-> v]
    ELSE LET i == (h * 6) \div Unit
             f == h * 6 - i * Unit
             p == (v * (Unit - s)) \div Unit
             q == (v * (Unit - (s * f) \div Unit)) \div Unit
             t == (v * (Unit - (s * (Unit - f)) \div Unit)) \div Unit
             k == i % 6
         IN  IF k = 0 THEN [r |-> v, g |-> t, b |-> p]
             ELSE IF k = 1 THEN [r |-> q, g |-> v, b |-> p]
             ELSE IF k = 2 THEN [r |-> p, g |-> v, b |-> t]
             ELSE IF k = 3 THEN [r |-> p, g |-> q, b |-> v]
             ELSE IF k = 4 THEN [r |-> t, g |-> p, b |-> v]
             ELSE [r |-> v, g |-> p, b |-> q]

\* vary_color(hex_color, variation) with the draws d; variation is in 1/Unit.
\* The except clause returns hex_color, which by then has lost its '#'.
vary_color(hex_color, variation, d) ==
    LET stripped == LStrip(hex_color, "#")
        r == ParseHexPair(stripped, 0)
        g == ParseHexPair(stripped, 2)
        b == ParseHexPair(stripped, 4)
    IN  IF r < 0 \/ g < 0 \/ b < 0 THEN stripped
        ELSE LET hsv == rgb_to_hsv(r, g, b)
                 h == (hsv.h + d.h * variation) % Unit
                 s == Max2(0, Min2(Unit, hsv.s + d.s * (variation \div 2)))
                 v == Max2((3 * Unit) \div 10,
                           Min2(Unit, hsv.v + d.v * (variation \div 2)))
                 rgb == hsv_to_rgb(h, s, v)
             IN  HexColor((rgb.r * 255) \div Unit, (rgb.g * 255) \div Unit,
                          (rgb.b * 255) \div Unit)

\* ['#4285f4', '#34a853', '#fbbc04']
DefaultColors ==
    << <<"#", "4", "2", "8", "5", "f", "4">>,
       <<"#", "3", "4", "a", "8", "5", "3">>,
       <<"#", "f", "b", "b", "c", "0", "4">> >>

NumColors == 3

\* The default variation of vary_color, 0.15, and the 0.1 that
\* extract_dominant_colors passes for the colors of the palette
DefaultVariation == (15 * Unit) \div 100
PaletteVariation == Unit \div 10

\* The try block of extract_dominant_colors; img is what ColorThief finds at
\* image_path ([readable, palette]), rnd[k] the draws of the k-th vary_color
\* call and picks[j] the j-th random.choice(default_colors)
extract_dominant_colors_try(img, rnd, picks) ==
    IF ~img.readable THEN Raised
    ELSE LET taken == SubSeq(img.palette, 1, Min2(NumColors, Len(img.palette)))
             colors == [k \in 1..Len(taken) |->
                          vary_color(HexColor(taken[k][1], taken[k][2],
                                              taken[k][3]),
                                     PaletteVariation, rnd[k])]
             padding == [j \in 1..(3 - Min2(3, Len(colors))) |->
                           vary_color(DefaultColors[picks[j]],
                                      DefaultVariation, rnd[Len(colors) + j])]
         IN  Returned(colors \o padding)

\* extract_dominant_colors that returns the palette's colors with no padding
extract_dominant_colors_unpadded(img, rnd, picks) ==
    IF ~img.readable
    THEN Returned([k \in 1..3 |->
                     vary_color(DefaultColors[k], DefaultVariation, rnd[k])])
    ELSE Returned([k \in 1..Min2(NumColors, Len(img.palette)) |->
                     vary_color(HexColor(img.palette[k][1], img.palette[k][2],
                                         img.palette[k][3]),
                                PaletteVariation, rnd[k])])

extract_dominant_colors(img, rnd, picks) ==
    IF extract_dominant_colors_try(img, rnd, picks).raised
    THEN Returned([k \in 1..3 |->
                     vary_color(DefaultColors[k], DefaultVariation, rnd[k])])
    ELSE extract_dominant_colors_try(img, rnd, picks)

\* The palettes the model lets ColorThief return: up to MaxPalette colors
\* with channels in 0..255, one entry more than num_colors included
MaxPalette == 4

PaletteColors == {<<0, 0, 0>>, <<255, 128, 9>>}

Images ==
    {[readable |-> FALSE, palette |-> <<>>]}
    \cup {[readable |-> TRUE, palette |-> p] :
            p \in UNION {[1..n -> PaletteColors] : n \in 0..MaxPalette}}

\* The number of random.choice calls the padding of a palette makes
Padding(img) ==
    IF img.readable THEN 3 - Min2(3, Min2(NumColors, Len(img.palette))) ELSE 0

ExtractDominantColors ==
    /\ ~colors_ret.returned /\ ~colors_ret.raised
    /\ \E rnd \in [1..3 -> Draws], picks \in [1..Padding(image) -> 1..3] :
         colors_ret' = extract_dominant_colors(image, rnd, picks)
    /\ UNCHANGED <<installs, installs_ret, size, size_ret, similar_args,
                   similar_ret, image, files, record, outcome, args, log,
                   html, renders>>

----------------------------------------------------------------------------
(* The image cache: download_image.  The file system is a function from    *)
(* paths to contents; the content of a downloaded file is the URL it was   *)
(* fetched from.                                                           *)

NoFile == "<no file>"
NoUrl == ""
NoneValue == "<None>"

IMAGES_DIR == "/app/static" \o "/images"

\* os.path.join(a, b)
PathJoin(a, b) == a \o "/" \o b

\* download_image with `return True` in the except clause
download_image_always_true(fs, url, save_path, down) ==
    IF fs[save_path] # NoFile
    THEN [ret |-> TRUE, fs |-> fs, http |-> FALSE]
    ELSE IF url \in down
    THEN [ret |-> TRUE, fs |-> fs, http |-> TRUE]
    ELSE [ret |-> TRUE, fs |-> [fs EXCEPT ![save_path] = url], http |-> TRUE]

\* download_image with no os.path.exists test
download_image_uncached(fs, url, save_path, down) ==
    IF url \in down
    THEN [ret |-> FALSE, fs |-> fs, http |-> TRUE]
    ELSE [ret |-> TRUE, fs |-> [fs EXCEPT ![save_path] = url], http |-> TRUE]

\* download_image(url, save_path) on the file system fs, when the URLs in
\* `down` fail (requests.get or raise_for_status raises): the value returned,
\* the file system left behind and whether an HTTP request was issued
download_image(fs, url, save_path, down) ==
    IF fs[save_path] # NoFile
    THEN [ret |-> TRUE, fs |-> fs, http |-> FALSE]
    ELSE IF url \in down
    THEN [ret |-> FALSE, fs |-> fs, http |-> TRUE]
    ELSE [ret |-> TRUE, fs |-> [fs EXCEPT ![save_path] = url], http |-> TRUE]

\* One entry of the call log of process_app_data
LogEntry(op, path, url, before, after, http, ret) ==
    [op |-> op, path |-> path, url |-> url, before |-> before,
     after |-> after, http |-> http, ret |-> ret]

\* The call state cs = [fs, log, pd] after download_image(url, path)
Download(cs, url, path, down) ==
    LET d == download_image(cs.fs, url, path, down)
    IN  [cs EXCEPT !.fs = d.fs,
                   !.log = Append(@, LogEntry("download_image", path, url,
                                              cs.fs[path], d.fs[path],
                                              d.http, d.ret))]

\* The value the last download_image call of cs returned
LastRet(cs) == cs.log[Len(cs.log)].ret

----------------------------------------------------------------------------
(* get_similar_apps.  A search result is a record [appId, icon]; the       *)
(* outcome of a search call is [raised, hits].                             *)

SimilarApp(app) ==
    [package_name |-> app.appId, icon |-> app.icon, icon_local |-> NoneValue]

RECURSIVE DevLoop(_, _, _)
\* for app in dev_results: lines 158-165
DevLoop(similar_apps, hits, package_name) ==
    IF hits = <<>> THEN similar_apps
    ELSE DevLoop(IF Head(hits).appId # package_name
                 THEN Append(similar_apps, SimilarApp(Head(hits)))
                 ELSE similar_apps,
                 Tail(hits), package_name)

RECURSIVE CatLoop(_, _, _, _)
\* for app in cat_results: lines 175-184, with the break
CatLoop(similar_apps, hits, package_name, max_apps) ==
    IF hits = <<>> THEN similar_apps
    ELSE IF /\ Head(hits).appId # package_name
            /\ ~\E k \in 1..Len(similar_apps) :
                   similar_apps[k].package_name = Head(hits).appId
    THEN IF Len(similar_apps) + 1 >= max_apps
         THEN Append(similar_apps, SimilarApp(Head(hits)))
         ELSE CatLoop(Append(similar_apps, SimilarApp(Head(hits))),
                      Tail(hits), package_name, max_apps)
    ELSE CatLoop(similar_apps, Tail(hits), package_name, max_apps)

CategoryThreshold == 4

\* get_similar_apps returning similar_apps in place of similar_apps[:max_apps]
get_similar_apps_unsliced(package_name, developer, category, max_apps, dev, cat) ==
    LET truthy(x) == x # NoneValue /\ x # ""
        by_dev == IF truthy(developer) /\ ~dev.raised
                  THEN DevLoop(<<>>, dev.hits, package_name)
                  ELSE <<>>
    IN  IF Len(by_dev) < CategoryThreshold /\ truthy(category) /\ ~cat.raised
        THEN CatLoop(by_dev, cat.hits, package_name, max_apps)
        ELSE by_dev

\* get_similar_apps; developer and category are NoneValue, "" or a string,
\* dev and cat the outcomes of the two search calls, max_apps is not negative
get_similar_apps(package_name, developer, category, max_apps, dev, cat) ==
    LET truthy(x) == x # NoneValue /\ x # ""
        by_dev == IF truthy(developer) /\ ~dev.raised
                  THEN DevLoop(<<>>, dev.hits, package_name)
                  ELSE <<>>
        all == IF Len(by_dev) < CategoryThreshold /\ truthy(category)
                  /\ ~cat.raised
               THEN CatLoop(by_dev, cat.hits, package_name, max_apps)
               ELSE by_dev
    IN  SubSeq(all, 1, Min2(max_apps, Len(all)))

\* get_similar_apps not called yet
NoSimilarArgs ==
    [package_name |-> "", developer |-> NoneValue, category |-> NoneValue,
     max_apps |-> 0, dev |-> [raised |-> FALSE, hits |-> <<>>],
     cat |-> [raised |-> FALSE, hits |-> <<>>]]

\* The calls of get_similar_apps the model makes: a developer and a
\* category that are None, '' or a name, max_apps up to MaxAsked, and two
\* searches that each raise or return up to MaxDevHits and MaxCatHits apps
\* among the package itself and two others, in any order and with repeats
SimilarPackage == "com.a"

MaxDevHits == 4
MaxCatHits == 2
MaxAsked == 3

SimilarHits ==
    {[appId |-> SimilarPackage, icon |-> "http://play/a"],
     [appId |-> "com.x", icon |-> "http://play/x"],
     [appId |-> "com.y", icon |-> "http://play/y"]}

SimilarSearches(n) ==
    {[raised |-> TRUE, hits |-> <<>>]}
    \cup {[raised |-> FALSE, hits |-> h] :
            h \in UNION {[1..k -> SimilarHits] : k \in 0..n}}

SimilarCalls ==
    [package_name : {SimilarPackage},
     developer : {NoneValue, "", "Dev"},
     category : {NoneValue, "", "GAME_PUZZLE"},
     max_apps : 0..MaxAsked,
     dev : SimilarSearches(MaxDevHits),
     cat : SimilarSearches(MaxCatHits)]

GetSimilarApps ==
    /\ ~similar_ret.returned /\ ~similar_ret.raised
    /\ similar_ret' =
         Returned(get_similar_apps(similar_args.package_name,
                                   similar_args.developer,
                                   similar_args.category,
                                   similar_args.max_apps,
                                   similar_args.dev, similar_args.cat))
    /\ UNCHANGED <<installs, installs_ret, size, size_ret, similar_args, image,
                   colors_ret, files, record, outcome, args, log, html,
                   renders>>

----------------------------------------------------------------------------
(* process_app_data.  The environment env of one call is what the outside   *)
(* world answers: scrape ("raise", "none" or "data") and meta, the answer   *)
(* of play_scraper; down, the URLs whose download fails; dev and cat, the   *)
(* outcomes of the two searches; extracted, what extract_dominant_colors    *)
(* returns for the icon.                                                    *)

ScreenshotName(i) == "screenshot_" \o NatStr(i) \o ".jpg"
SimilarName(i) == "similar_" \o NatStr(i) \o ".png"

\* processed_data as built by lines 219-252 (the fields the model follows)
ProcessedData(package_name, language) ==
    [package_name |-> package_name,
     language |-> language,
     colors |-> DefaultColors,
     icon |-> NoneValue,
     cover |-> NoneValue,
     screenshots |-> <<>>,
     similar_apps |-> <<>>]

\* Lines 255-259 with the test of download_image's result dropped
IconStepUnchecked(cs, dir, meta, env) ==
    IF meta.icon = NoUrl THEN cs
    ELSE LET cs1 == Download(cs, meta.icon, PathJoin(dir, "icon.png"),
                             env.down)
         IN  [cs1 EXCEPT
                !.pd.icon = "icon.png",
                !.pd.colors = env.extracted,
                !.log = Append(@, LogEntry("extract_dominant_colors",
                                           PathJoin(dir, "icon.png"), "",
                                           "", "", FALSE, TRUE))]

\* Lines 255-259: the icon and the palette
IconStep(cs, dir, meta, env) ==
    IF meta.icon = NoUrl THEN cs
    ELSE LET cs1 == Download(cs, meta.icon, PathJoin(dir, "icon.png"),
                             env.down)
         IN  IF LastRet(cs1)
             THEN [cs1 EXCEPT
                     !.pd.icon = "icon.png",
                     !.pd.colors = env.extracted,
                     !.log = Append(@, LogEntry("extract_dominant_colors",
                                                PathJoin(dir, "icon.png"), "",
                                                "", "", FALSE, TRUE))]
             ELSE cs1

\* Lines 262-265: the cover
CoverStep(cs, dir, meta, env) ==
    IF meta.headerImage = NoUrl THEN cs
    ELSE LET cs1 == Download(cs, meta.headerImage, PathJoin(dir, "cover.jpg"),
                             env.down)
         IN  IF LastRet(cs1) THEN [cs1 EXCEPT !.pd.cover = "cover.jpg"]
             ELSE cs1

RECURSIVE ScreenshotLoop(_, _, _, _, _)
\* Lines 270-273: for i, screenshot_url in enumerate(app_data['screenshots']),
\* from index i on; cs.pd.screenshots is the local list `screenshots`
ScreenshotLoop(cs, dir, urls, i, env) ==
    IF i >= Len(urls) THEN cs
    ELSE LET cs1 == Download(cs, urls[i + 1],
                             PathJoin(dir, ScreenshotName(i)), env.down)
         IN  ScreenshotLoop(
                 IF LastRet(cs1)
                 THEN [cs1 EXCEPT
                         !.pd.screenshots = Append(@, ScreenshotName(i))]
                 ELSE cs1,
                 dir, urls, i + 1, env)

RECURSIVE SimilarLoop(_, _, _, _)
\* Lines 289-293: for i, similar_app in enumerate(similar_apps), from
\* index i on; cs.pd.similar_apps is the list `similar_apps`
SimilarLoop(cs, dir, i, env) ==
    IF i >= Len(cs.pd.similar_apps) THEN cs
    ELSE IF cs.pd.similar_apps[i + 1].icon = NoUrl
    THEN SimilarLoop(cs, dir, i + 1, env)
    ELSE LET cs1 == Download(cs, cs.pd.similar_apps[i + 1].icon,
                             PathJoin(dir, SimilarName(i)), env.down)
         IN  SimilarLoop(
                 IF LastRet(cs1)
                 THEN [cs1 EXCEPT
                         !.pd.similar_apps[i + 1].icon_local = SimilarName(i)]
                 ELSE cs1,
                 dir, i + 1, env)

MaxApps == 8

\* The try block of process_app_data: [raised, none, value, fs, log]; value
\* is the record returned when neither an exception was raised nor None
\* was returned
process_app_data_try(package_name, language, fs, env) ==
    LET dir == PathJoin(IMAGES_DIR, package_name)
        cs0 == [fs |-> fs,
                log |-> <<LogEntry("play_scraper", "", "", "", "", TRUE,
                                   env.scrape = "data")>>,
                pd |-> ProcessedData(package_name, language)]
        cs1 == IconStep(cs0, dir, env.meta, env)
        cs2 == CoverStep(cs1, dir, env.meta, env)
        cs3 == ScreenshotLoop(cs2, dir, env.meta.screenshots, 0, env)
        cs4 == [cs3 EXCEPT
                  !.pd.similar_apps =
                      get_similar_apps(package_name, env.meta.developer,
                                       env.meta.genreId, MaxApps,
                                       env.dev, env.cat)]
        cs5 == SimilarLoop(cs4, dir, 0, env)
    IN  IF env.scrape = "raise"
        THEN [raised |-> TRUE, none |-> FALSE, value |-> cs0.pd, fs |-> fs,
              log |-> cs0.log]
        ELSE IF env.scrape = "none"
        THEN [raised |-> FALSE, none |-> TRUE, value |-> cs0.pd, fs |-> fs,
              log |-> cs0.log]
        ELSE IF env.meta.description = NoneValue
        THEN [raised |-> TRUE, none |-> FALSE, value |-> cs0.pd, fs |-> fs,
              log |-> cs0.log]
        ELSE [raised |-> FALSE, none |-> FALSE, value |-> cs5.pd,
              fs |-> cs5.fs, log |-> cs5.log]

\* process_app_data with no except clause
process_app_data_uncaught(package_name, language, fs, env) ==
    process_app_data_try(package_name, language, fs, env)

\* process_app_data: the except clause turns an exception into None
process_app_data(package_name, language, fs, env) ==
    IF process_app_data_try(package_name, language, fs, env).raised
    THEN [process_app_data_try(package_name, language, fs, env)
            EXCEPT !.raised = FALSE, !.none = TRUE]
    ELSE process_app_data_try(package_name, language, fs, env)

----------------------------------------------------------------------------
(* generate_html.  The page is modelled by what the template reads of the  *)
(* images and colors: the src of the icon, of each screenshot and of each  *)
(* similar app's icon, and colors[0..2].  The randomization parameters     *)
(* change the layout only (sections_order always holds the screenshots).   *)

LandingPrefix(landing_id) == "/landing/" \o landing_id \o "/"

\* The image names a record carries
ImageNames(app_data) ==
    (IF app_data.icon # NoneValue THEN {app_data.icon} ELSE {})
    \cup (IF app_data.cover # NoneValue THEN {app_data.cover} ELSE {})
    \cup {app_data.screenshots[k] : k \in 1..Len(app_data.screenshots)}
    \cup {app_data.similar_apps[k].icon_local :
            k \in {j \in 1..Len(app_data.similar_apps) :
                     app_data.similar_apps[j].icon_local # NoneValue}}

\* Lines 321-334: template_data is a shallow copy of app_data, so the dicts
\* of similar_apps it updates are those of app_data.  Returns the record as
\* the call leaves it and the page.
generate_html(app_data, landing_id) ==
    LET prefixed ==
            [k \in 1..Len(app_data.similar_apps) |->
               IF app_data.similar_apps[k].icon_local # NoneValue
               THEN [app_data.similar_apps[k] EXCEPT
                       !.icon_local = LandingPrefix(landing_id) \o @]
               ELSE app_data.similar_apps[k]]
    IN  [app_data |-> [app_data EXCEPT !.similar_apps = prefixed],
         page |->
           [rendered |-> TRUE,
            landing_id |-> landing_id,
            names |-> ImageNames(app_data),
            icon |-> IF app_data.icon # NoneValue
                     THEN LandingPrefix(landing_id) \o app_data.icon
                     ELSE NoneValue,
            screenshots |->
                [k \in 1..Len(app_data.screenshots) |->
                   LandingPrefix(landing_id) \o app_data.screenshots[k]],
            similar_icons |->
                [k \in 1..Len(prefixed) |-> prefixed[k].icon_local],
            colors |-> app_data.colors]]

NoPage ==
    [rendered |-> FALSE, landing_id |-> "", names |-> {}, icon |-> NoneValue,
     screenshots |-> <<>>, similar_icons |-> <<>>, colors |-> <<>>]

\* The image references of a page
PageImages(page) ==
    (IF page.icon # NoneValue THEN {page.icon} ELSE {})
    \cup {page.screenshots[k] : k \in 1..Len(page.screenshots)}
    \cup {page.similar_icons[k] :
            k \in {j \in 1..Len(page.similar_icons) :
                     page.similar_icons[j] # NoneValue}}

----------------------------------------------------------------------------
(* The environments and the specifications                                 *)

Packages == {"com.a"}
Languages == {"en", "ru"}
LandingIds == {"ab12", "cd34"}

MaxShots == 1
MaxRenders == 2

IconUrl == "http://play/icon"
CoverUrl == "http://play/cover"
ShotUrls(n) == [k \in 1..n |-> "http://play/shot" \o NatStr(k - 1)]

\* What search() can return: the package itself and two other apps
SearchHits(package_name) ==
    {[appId |-> package_name, icon |-> IconUrl],
     [appId |-> "com.x", icon |-> "http://play/x"],
     [appId |-> "com.y", icon |-> "http://play/y"]}

Urls ==
    {IconUrl, CoverUrl, "http://play/x", "http://play/y"}
    \cup {ShotUrls(MaxShots)[k] : k \in 1..MaxShots}

\* A search raises, finds nothing or finds one app
SearchOutcomes(package_name) ==
    {[raised |-> TRUE, hits |-> <<>>], [raised |-> FALSE, hits |-> <<>>]}
    \cup {[raised |-> FALSE, hits |-> <<h>>] :
            h \in SearchHits(package_name)}

\* No download fails, or those of one URL do
Downs == {{}} \cup {{u} : u \in Urls}

Metas ==
    [icon : {NoUrl, IconUrl},
     headerImage : {NoUrl, CoverUrl},
     screenshots : {ShotUrls(n) : n \in 0..MaxShots},
     description : {"text"},
     developer : {"Dev Inc"},
     genreId : {"GAME_ACTION"}]

\* Metadata whose descriptionHTML and description are both None
MetaNoDescription ==
    [icon |-> IconUrl, headerImage |-> NoUrl, screenshots |-> <<>>,
     description |-> NoneValue, developer |-> NoneValue, genreId |-> ""]

\* What extract_dominant_colors returns in the pipeline: for an icon that
\* cannot be read and for one with a palette of two colors, with one choice
\* of the draws
PipelineExtracts ==
    {extract_dominant_colors(img, [k \in 1..3 |-> [h |-> 1, s |-> -1, v |-> 1]],
                             <<2>>).value :
       img \in {[readable |-> FALSE, palette |-> <<>>],
                [readable |-> TRUE,
                 palette |-> << <<255, 128, 9>>, <<0, 0, 0>> >>]}}

Envs(package_name) ==
    [scrape : {"data"},
     meta : Metas,
     down : Downs,
     dev : SearchOutcomes(package_name),
     cat : SearchOutcomes(package_name),
     extracted : PipelineExtracts]
    \cup
    [scrape : {"raise", "none", "data"},
     meta : {MetaNoDescription},
     down : {{}},
     dev : {[raised |-> TRUE, hits |-> <<>>]},
     cat : {[raised |-> TRUE, hits |-> <<>>]},
     extracted : {DefaultColors}]

FileNames ==
    {"icon.png", "cover.jpg"}
    \cup {ScreenshotName(i) : i \in 0..(MaxShots - 1)}
    \cup {SimilarName(i) : i \in 0..1}

Paths == {PathJoin(PathJoin(IMAGES_DIR, p), n) : p \in Packages, n \in FileNames}

ProcessAppData ==
    /\ outcome = "idle"
    /\ \E package_name \in Packages, language \in Languages :
      \E env \in Envs(package_name) :
        \E r \in {process_app_data(package_name, language, files, env)} :
            /\ files' = r.fs
            /\ record' = r.value
            /\ outcome' = IF r.raised THEN "raised"
                          ELSE IF r.none THEN "None" ELSE "record"
            /\ args' = [package_name |-> package_name, language |-> language,
                        scrape |-> env.scrape, icon |-> env.meta.icon,
                        description |-> env.meta.description]
            /\ log' = r.log
            /\ html' = NoPage
            /\ renders' = 0
            /\ UNCHANGED <<installs, installs_ret, size, size_ret,
                           similar_args, similar_ret, image, colors_ret>>

GenerateHtml ==
    /\ outcome = "record"
    /\ renders < MaxRenders
    /\ \E landing_id \in LandingIds :
         /\ record' = generate_html(record, landing_id).app_data
         /\ html' = generate_html(record, landing_id).page
    /\ renders' = renders + 1
    /\ UNCHANGED <<installs, installs_ret, size, size_ret, similar_args,
                   similar_ret, image, colors_ret, files, outcome, args, log>>

NoArgs ==
    [package_name |-> "", language |-> "", scrape |-> "", icon |-> NoUrl,
     description |-> ""]

\* The request is answered: the record, the page and the call log of the
\* request are dropped, the files stay
Respond ==
    /\ outcome # "idle"
    /\ outcome' = "idle"
    /\ record' = ProcessedData("", "")
    /\ args' = NoArgs
    /\ log' = <<>>
    /\ html' = NoPage
    /\ renders' = 0
    /\ UNCHANGED <<installs, installs_ret, size, size_ret, similar_args,
                   similar_ret, image, colors_ret, files>>

Init ==
    /\ installs = PyNone
    /\ installs_ret = NotCalled
    /\ size = PyNone
    /\ size_ret = NotCalled
    /\ similar_args = NoSimilarArgs
    /\ similar_ret = NotCalled
    /\ image = [readable |-> FALSE, palette |-> <<>>]
    /\ colors_ret = NotCalled
    /\ files = [p \in Paths |-> NoFile]
    /\ record = ProcessedData("", "")
    /\ outcome = "idle"
    /\ args = NoArgs
    /\ log = <<>>
    /\ html = NoPage
    /\ renders = 0

Next == ProcessAppData \/ GenerateHtml \/ Respond

Spec == Init /\ [][Next]_vars

\* format_installs called once on each argument of InstallInputs
InitInstalls ==
    /\ installs \in InstallInputs
    /\ installs_ret = NotCalled
    /\ size = PyNone
    /\ size_ret = NotCalled
    /\ similar_args = NoSimilarArgs
    /\ similar_ret = NotCalled
    /\ image = [readable |-> FALSE, palette |-> <<>>]
    /\ colors_ret = NotCalled
    /\ files = [p \in Paths |-> NoFile]
    /\ record = ProcessedData("", "")
    /\ outcome = "idle"
    /\ args = NoArgs
    /\ log = <<>>
    /\ html = NoPage
    /\ renders = 0

SpecInstalls == InitInstalls /\ [][FormatInstalls]_vars

\* format_size called once on each argument of SizeInputs
InitSizes ==
    /\ installs = PyNone
    /\ installs_ret = NotCalled
    /\ size \in SizeInputs
    /\ size_ret = NotCalled
    /\ similar_args = NoSimilarArgs
    /\ similar_ret = NotCalled
    /\ image = [readable |-> FALSE, palette |-> <<>>]
    /\ colors_ret = NotCalled
    /\ files = [p \in Paths |-> NoFile]
    /\ record = ProcessedData("", "")
    /\ outcome = "idle"
    /\ args = NoArgs
    /\ log = <<>>
    /\ html = NoPage
    /\ renders = 0

SpecSizes == InitSizes /\ [][FormatSize]_vars

\* get_similar_apps called once with each call of SimilarCalls
InitSimilar ==
    /\ installs = PyNone
    /\ installs_ret = NotCalled
    /\ size = PyNone
    /\ size_ret = NotCalled
    /\ similar_args \in SimilarCalls
    /\ similar_ret = NotCalled
    /\ image = [readable |-> FALSE, palette |-> <<>>]
    /\ colors_ret = NotCalled
    /\ files = [p \in Paths |-> NoFile]
    /\ record = ProcessedData("", "")
    /\ outcome = "idle"
    /\ args = NoArgs
    /\ log = <<>>
    /\ html = NoPage
    /\ renders = 0

SpecSimilar == InitSimilar /\ [][GetSimilarApps]_vars

\* extract_dominant_colors called once on each image of Images
InitColors ==
    /\ installs = PyNone
    /\ installs_ret = NotCalled
    /\ size = PyNone
    /\ size_ret = NotCalled
    /\ similar_args = NoSimilarArgs
    /\ similar_ret = NotCalled
    /\ image \in Images
    /\ colors_ret = NotCalled
    /\ files = [p \in Paths |-> NoFile]
    /\ record = ProcessedData("", "")
    /\ outcome = "idle"
    /\ args = NoArgs
    /\ log = <<>>
    /\ html = NoPage
    /\ renders = 0

SpecColors == InitColors /\ [][ExtractDominantColors]_vars

----------------------------------------------------------------------------
(* The claims                                                              *)

Abs(n) == IF n < 0 THEN -n ELSE n

\* The last two characters of a string, and what precedes them
Suffix(s) == IF Len(s) >= 2 THEN SubSeq(s, Len(s) - 1, Len(s)) ELSE <<>>
BeforeSuffix(s) == IF Len(s) >= 2 THEN SubSeq(s, 1, Len(s) - 2) ELSE <<>>

\* s is `suffix` preceded by the decimal digits of an integer nearest to
\* n / unit
IsRounded(s, n, unit, suffix) ==
    /\ Suffix(s) = suffix
    /\ CharsNat(BeforeSuffix(s)) >= 0
    /\ 2 * Abs(n - CharsNat(BeforeSuffix(s)) * unit) <= unit

\* C1: a download_image call that finds a file at save_path returns True,
\* issues no HTTP request and leaves the content of the file as it was.
C1_CachedDownloadIsNoOp ==
    \A k \in 1..Len(log) :
        (log[k].op = "download_image" /\ log[k].before # NoFile)
        => (log[k].ret /\ ~log[k].http /\ log[k].after = log[k].before)

\* C1 witness: a call for a URL other than the one the cached file came from
C1_Witness ==
    \E k \in 1..Len(log) :
        /\ log[k].op = "download_image"
        /\ log[k].before # NoFile
        /\ log[k].url # log[k].before

\* The directory of the images of the package of the current call
AppImagesDir == PathJoin(IMAGES_DIR, args.package_name)

\* C2: every image name of a record process_app_data returns names a file
\* of the app's image directory, for which a download_image call of that
\* request returned True; the images a page references are image names of
\* the record it was rendered from, prefixed with /landing/<landing_id>/;
\* so each image of the page rendered from the record as returned is a
\* file of the app's image directory.
C2_ImagesExist ==
    /\ (outcome = "record" /\ renders = 0) =>
         \A n \in ImageNames(record) :
             /\ PathJoin(AppImagesDir, n) \in DOMAIN files
             /\ files[PathJoin(AppImagesDir, n)] # NoFile
             /\ \E k \in 1..Len(log) :
                    /\ log[k].op = "download_image"
                    /\ log[k].path = PathJoin(AppImagesDir, n)
                    /\ log[k].ret
    /\ html.rendered =>
         PageImages(html) \subseteq
             {LandingPrefix(html.landing_id) \o n : n \in html.names}
    /\ (html.rendered /\ renders = 1) =>
         \A ref \in PageImages(html) :
             \E n \in FileNames :
                 /\ ref = LandingPrefix(html.landing_id) \o n
                 /\ files[PathJoin(AppImagesDir, n)] # NoFile

\* C2 witness: a page rendered from a record with an icon, a cover, a
\* screenshot and a similar app's icon
C2_Witness ==
    /\ outcome = "record"
    /\ renders = 1
    /\ html.rendered
    /\ html.icon # NoneValue
    /\ record.cover # NoneValue
    /\ Len(html.screenshots) > 0
    /\ \E k \in 1..Len(html.similar_icons) : html.similar_icons[k] # NoneValue

\* The log holds a download of the icon that returned True
IconDownloaded ==
    \E k \in 1..Len(log) :
        /\ log[k].op = "download_image"
        /\ log[k].path = PathJoin(AppImagesDir, "icon.png")
        /\ log[k].ret

\* C3: the metadata fetch is the first call of process_app_data and no
\* download precedes it; extract_dominant_colors is called only right after
\* a download of the icon that returned True; with no icon URL or a failed
\* icon download it is not called and the record keeps the default colors.
C3_PipelineOrder ==
    /\ \A k \in 1..Len(log) :
         /\ (log[k].op = "play_scraper") <=> (k = 1)
         /\ log[k].op = "download_image" => log[1].ret
         /\ log[k].op = "extract_dominant_colors" =>
              /\ k > 1
              /\ log[k - 1].op = "download_image"
              /\ log[k - 1].path = PathJoin(AppImagesDir, "icon.png")
              /\ log[k - 1].ret
    /\ (args.icon = NoUrl \/ ~IconDownloaded) =>
         /\ \A k \in 1..Len(log) : log[k].op # "extract_dominant_colors"
         /\ outcome = "record" => record.colors = DefaultColors

\* C3 witness: the icon download failed and the record was returned
C3_Witness ==
    /\ outcome = "record"
    /\ args.icon # NoUrl
    /\ ~IconDownloaded
    /\ \E k \in 1..Len(log) :
           log[k].op = "download_image" /\ log[k].url = args.icon /\ ~log[k].ret

\* C3 witness of the other case: the palette was extracted after the icon
C3_WitnessExtracted ==
    /\ outcome = "record"
    /\ \E k \in 1..Len(log) : log[k].op = "extract_dominant_colors"
    /\ record.colors # DefaultColors

\* C4: every image path of a rendered page carries exactly one
\* /landing/<landing_id>/ prefix, that of the call's landing ID, also when
\* the record is rendered again (generate_html leaves its argument as it
\* found it).
C4_OnePrefixPerRender ==
    html.rendered =>
        PageImages(html) \subseteq
            {LandingPrefix(html.landing_id) \o n : n \in FileNames}

\* C5: extract_dominant_colors does not raise and returns exactly 3 colors,
\* each a '#' followed by 6 hex digits, for every palette and for an image
\* that cannot be read.
C5_ThreeHexColors ==
    /\ ~colors_ret.raised
    /\ colors_ret.returned =>
         /\ Len(colors_ret.value) = 3
         /\ \A k \in 1..Len(colors_ret.value) :
              /\ Len(colors_ret.value[k]) = 7
              /\ colors_ret.value[k][1] = "#"
              /\ \A j \in 2..7 : HexValue(colors_ret.value[k][j]) >= 0

\* C5 witness: a palette of one color, padded with two default colors
C5_Witness ==
    /\ colors_ret.returned
    /\ image.readable
    /\ Len(image.palette) = 1

\* C5 witness of the other case: the image cannot be read
C5_WitnessUnreadable == colors_ret.returned /\ ~image.readable

\* C6: process_app_data does not raise; it returns None when the scraper
\* returns no data or a step raises, and otherwise a record with the
\* package_name and language of the call.
C6_NoneOrRecord ==
    /\ outcome # "raised"
    /\ outcome # "idle" =>
         /\ (args.scrape # "data" \/ args.description = NoneValue)
              => outcome = "None"
         /\ (args.scrape = "data" /\ args.description # NoneValue)
              => outcome = "record"
         /\ outcome = "record" =>
              /\ record.package_name = args.package_name
              /\ record.language = args.language

\* C6 witness: the scraper returned data and a later step raised
C6_Witness ==
    /\ outcome = "None"
    /\ args.scrape = "data"
    /\ args.description = NoneValue

\* C7: the file similar_<i>.png that a similar app's icon_local names holds
\* the image fetched from that similar app's icon URL.
C7_SimilarIconIsOwn ==
    (outcome = "record" /\ renders = 0) =>
        \A k \in 1..Len(record.similar_apps) :
            record.similar_apps[k].icon_local # NoneValue =>
                files[PathJoin(AppImagesDir, record.similar_apps[k].icon_local)]
                    = record.similar_apps[k].icon

\* The argument of the format_installs call as a non-negative int
IsCount == installs.t = "int" /\ installs.v >= 0

\* C8: for n >= 0 format_installs returns the decimal string of n below
\* 1000, and above it n divided by the unit (1000, 10^6, 10^9) and rounded
\* to an integer, followed by 'K+', 'M+' or 'B+'.
C8_FormatInstalls ==
    (installs_ret.returned /\ IsCount) =>
        /\ installs.v < Thousand =>
             /\ CharsNat(installs_ret.value) = installs.v
             /\ (Len(installs_ret.value) > 1 => installs_ret.value[1] # "0")
        /\ (Thousand <= installs.v /\ installs.v < Million) =>
             IsRounded(installs_ret.value, installs.v, Thousand, <<"K", "+">>)
        /\ (Million <= installs.v /\ installs.v < Billion) =>
             IsRounded(installs_ret.value, installs.v, Million, <<"M", "+">>)
        /\ installs.v >= Billion =>
             IsRounded(installs_ret.value, installs.v, Billion, <<"B", "+">>)

\* C8 witness: 2500 is formatted as '2K+' (a tie, rounded to the even side)
C8_Witness ==
    /\ installs = PyInt(2500)
    /\ installs_ret.returned
    /\ installs_ret.value = <<"2", "K", "+">>

\* C9: for 1000 <= n < 10^9 the number format_installs prints before 'K+'
\* or 'M+' is between 1 and 999.
C9_WithinUnit ==
    (installs_ret.returned /\ IsCount /\ Thousand <= installs.v
       /\ installs.v < Billion) =>
        /\ CharsNat(BeforeSuffix(installs_ret.value)) >= 1
        /\ CharsNat(BeforeSuffix(installs_ret.value)) <= 999

\* C10: format_installs does not raise, and returns '0+' for an argument
\* that cannot be compared with a number.
C10_NeverRaises ==
    /\ ~installs_ret.raised
    /\ (installs_ret.returned /\ installs.t # "int") =>
         installs_ret.value = <<"0", "+">>

\* C10 witness: format_installs(None) has returned '0+'
C10_Witness ==
    /\ installs = PyNone
    /\ installs_ret.returned
    /\ installs_ret.value = <<"0", "+">>

\* tenths / 10 is a one-decimal number nearest to b / unit: 10 * b and
\* tenths * unit differ by at most unit / 2 (compared in multiples of KB and
\* the rest of b)
IsNearestTenth(tenths, b, unit) ==
    LET d == 10 * (b \div KB) - tenths * (unit \div KB)
    IN  /\ Abs(d) <= unit \div KB
        /\ Abs(d * KB + 10 * (b % KB)) <= unit \div 2

\* s is the size b in `unit` with one decimal, followed by `suffix`
IsOneDecimal(s, b, unit, suffix) ==
    \E tenths \in (10 * (b \div unit))..(10 * (b \div unit) + 10) :
        /\ s = OneDecimal(tenths) \o suffix
        /\ IsNearestTenth(tenths, b, unit)

\* C11: format_size never raises and never returns an empty string; it
\* returns 'Varies' for a falsy argument (None, '', 0) and for one that is
\* not convertible to a number; for a positive byte count b it returns
\* floor(b / 1024) and ' KB' when b < 1048576, the size in MB with one
\* decimal and ' MB' when 1048576 <= b < 1073741824, and the size in GB with
\* one decimal and ' GB' otherwise.
C11_FormatSize ==
    /\ ~size_ret.raised
    /\ size_ret.returned =>
        /\ size_ret.value # <<>>
        /\ size.t \in {"none", "emptystr", "str"} => size_ret.value = Varies
        /\ size.t = "int" /\ size.v = 0 => size_ret.value = Varies
        /\ size.t \in {"int", "numstr"} /\ size.v > 0 =>
            /\ size.v < 1048576 =>
                size_ret.value = NatChars(size.v \div 1024) \o <<" ", "K", "B">>
            /\ size.v >= 1048576 /\ size.v < 1073741824 =>
                IsOneDecimal(size_ret.value, size.v, 1048576, <<" ", "M", "B">>)
            /\ size.v >= 1073741824 =>
                IsOneDecimal(size_ret.value, size.v, 1073741824,
                             <<" ", "G", "B">>)

\* format_size(1310720), 1.25 MB, has returned '1.2 MB'
C11_Witness ==
    /\ size = PyInt(1310720)
    /\ size_ret = Returned(<<"1", ".", "2", " ", "M", "B">>)

\* format_size of a string that is no number has returned 'Varies'
C11_WitnessVaries ==
    /\ size = PyStr
    /\ size_ret = Returned(Varies)

\* C12: get_similar_apps(package_name, developer, category, max_apps)
\* returns a list of at most max_apps entries, none of which has
\* package_name equal to the package_name argument, for any search results.
C12_AtMostMaxAppsNoneOwn ==
    similar_ret.returned =>
        /\ Len(similar_ret.value) <= similar_args.max_apps
        /\ \A k \in 1..Len(similar_ret.value) :
               similar_ret.value[k].package_name # similar_args.package_name

\* Both searches found the package itself among more apps than max_apps,
\* and the call has returned max_apps entries
C12_Witness ==
    /\ similar_ret.returned
    /\ similar_args.max_apps = 2
    /\ Len(similar_ret.value) = 2
    /\ Len(similar_args.dev.hits) = MaxDevHits
    /\ \E k \in 1..Len(similar_args.dev.hits) :
           similar_args.dev.hits[k].appId = similar_args.package_name
    /\ \E k \in 1..Len(similar_args.cat.hits) :
           similar_args.cat.hits[k].appId = similar_args.package_name

\* C13: the list get_similar_apps returns has no two entries with the same
\* package_name, for any results of the developer and the category search.
C13_NoDuplicatePackage ==
    similar_ret.returned =>
        \A i, j \in 1..Len(similar_ret.value) :
            i # j => similar_ret.value[i].package_name
                       # similar_ret.value[j].package_name

====
